---- MODULE Spec2Model ----
(***************************************************************************)
(* Prompt-budget management of agentuniverse/base/util/prompt_util.py:     *)
(* the chunker (split_text_on_tokens), the splitter with its one retry     *)
(* (split_texts), truncation (truncate_content) and the budget controller  *)
(* (process_llm_token).                                                    *)
(*                                                                         *)
(* A text is a sequence of characters.  One run of the model is one call   *)
(* of one of the four functions (op) on inputs drawn in Init; pc is the    *)
(* position of that call: "start", "for" (the loop of split_texts),        *)
(* "while" (the loop of split_text_on_tokens) or "done".                   *)
(***************************************************************************)
EXTENDS Integers, Sequences, FiniteSets, TLC

\* ------------------------------------------------------------------ bounds

\* Longest text drawn as an input.
MaxLen == 4
\* The estimator calls that may fail are among the first MaxFailCall.
MaxFailCall == 2
\* A loop of split_text_on_tokens whose cursor advances produces at most
\* Len(text) chunks; a loop still running after MaxChunks chunks is one that
\* never ends, and the model stops following it there.
MaxChunks == MaxLen + 2

\* ------------------------------------------------------- program constants

\* chunk_size=800 and chunk_overlap=100, the defaults of split_texts.
DefaultChunkSize == 800
DefaultChunkOverlap == 100

\* PromptProcessEnum.TRUNCATE.value, the default policy.
TRUNCATE == "truncate"
STUFF == "stuff"
MAP_REDUCE == "map_reduce"
\* prompt_processor.get('type') of a profile that sets none.
NoType == "None"

\* ------------------------------------------------------------ input domains

Alphabet == {"a", "b"}

RECURSIVE TextsOfLen(_)
TextsOfLen(n) ==
    IF n = 0 THEN {<< >>}
    ELSE {Append(t, c) : t \in TextsOfLen(n - 1), c \in Alphabet}

Texts == UNION {TextsOfLen(n) : n \in 0..MaxLen}

\* Tokens the estimator counts per character; an estimator is one weight per
\* character of the alphabet.
TokenWeights == {0, 1, 300}
Estimators == [Alphabet -> TokenWeights]

\* Direct calls of split_text_on_tokens: the token estimate and the chunk
\* parameters.
TokenCounts == {0, 1, 2, 4, 8}
SmallSizes == 0..3

\* (chunk_size, chunk_overlap) of a call of split_texts.
ChunkParams ==
    { <<DefaultChunkSize, DefaultChunkOverlap>>, <<600, 300>>, <<900, 300>>,
      <<2, 1>>, <<3, 1>>, <<1, 1>>, <<1, 2>> }

\* texts of a call of split_texts.
Batches ==
    {<< >>} \cup {<<t>> : t \in Texts}
            \cup {<<t, u>> : t \in Texts, u \in {<<"b">>, <<"a", "b">>}}

\* token_length of a call of truncate_content.
TokenLengths == {0, 1, 2, 3, 150, 600, 900}

\* (max_context_length(), max_tokens) of the target model.
LLMConfigs ==
    { [max_context_length |-> 5, max_tokens |-> 1],
      [max_context_length |-> 2, max_tokens |-> 3],
      [max_context_length |-> 900, max_tokens |-> 300] }

\* profile.llm_model.prompt_processor.type
ProcessorTypes == {NoType, TRUNCATE, STUFF, MAP_REDUCE, "bogus"}

\* What a summarization chain may answer.
Summaries == {<<"a">>, <<"a", "b">>}

\* The prompt template: its literal text and its input_variables.
TemplateLiteral == <<"b">>
Templates == { <<"background", "input">>, <<"input">> }
Inputs == {<<"a">>, <<"b", "b">>}

\* --------------------------------------------------------- python builtins

Min(x, y) == IF x < y THEN x ELSE y
Max(x, y) == IF x > y THEN x ELSE y

\* int(n / d) for d > 0: truncation toward zero.
TruncDiv(n, d) == IF n >= 0 THEN n \div d ELSE -((-n) \div d)

\* A slice index as Python normalises it for a sequence of length n.
NormIdx(i, n) == IF i < 0 THEN Max(i + n, 0) ELSE Min(i, n)

\* The span <<start, stop>> of t[i:j], 0-based, stop exclusive.
SliceSpan(t, i, j) ==
    LET s == NormIdx(i, Len(t))
        e == NormIdx(j, Len(t))
    IN  <<s, Max(s, e)>>

\* t[i:j]
PySlice(t, i, j) ==
    LET sp == SliceSpan(t, i, j) IN SubSeq(t, sp[1] + 1, sp[2])

\* t[i:]
PySliceFrom(t, i) == PySlice(t, i, Len(t))

RECURSIVE Flatten(_)
Flatten(ss) == IF ss = << >> THEN << >> ELSE Head(ss) \o Flatten(Tail(ss))

\* ----------------------------------------------------------- collaborators

\* agent_llm.get_num_tokens(text) of an estimator that answers.
RECURSIVE get_num_tokens(_, _)
get_num_tokens(weights, t) ==
    IF t = << >> THEN 0 ELSE weights[Head(t)] + get_num_tokens(weights, Tail(t))

\* prompt_template.format(**prompt_input_dict): the literal text, then the
\* value of each input variable.
Format(input_variables, input) ==
    TemplateLiteral \o Flatten([i \in 1..Len(input_variables) |-> input[input_variables[i]]])

\* PromptProcessEnum.from_value: the member of that value, else an error.
from_value(value) ==
    IF value \in {TRUNCATE, STUFF, MAP_REDUCE} THEN value ELSE "ValueError"

\* ------------------------------------------------------ split_text_on_tokens

\* int(n * char_per_token), char_per_token = len(text) / text_token.  Within
\* the input domains the double-precision product floors to the exact
\* quotient.
CharCount(n, t, tokens) == TruncDiv(n * Len(t), tokens)

\* while current_position + chunk_char_overlap < len(text)
WhileCond(pos, char_overlap, t) == pos + char_overlap < Len(t)

\* The span of the chunk cut at pos.
ChunkSpan(t, pos, char_size) ==
    IF pos + char_size >= Len(t)
    THEN SliceSpan(t, pos, Len(t))
    ELSE SliceSpan(t, pos, pos + char_size)

\* The chunk cut at pos.
Chunk(t, pos, char_size) ==
    IF pos + char_size >= Len(t)
    THEN PySliceFrom(t, pos)
    ELSE PySlice(t, pos, pos + char_size)

NextPositionNoOverlap(pos, char_size, char_overlap) == pos + char_size

\* current_position += chunk_char_size - chunk_char_overlap
NextPosition(pos, char_size, char_overlap) == pos + char_size - char_overlap

\* -------------------------------------------------------------------- state

VARIABLES
    op,                 \* the function called
    args,               \* the arguments of that call
    w,                  \* the estimator of agent_llm: tokens per character
    fails,              \* the estimator calls (by number) that raise
    est_calls,          \* estimator calls made so far
    pc,                 \* position of the call
    outcome,            \* what the call returned or raised
    \* split_text_on_tokens
    text, text_token, chunk_char_size, chunk_char_overlap, result,
    current_position,
    spans,              \* the span in text of each chunk of result
    \* split_texts
    texts, chunk_size, chunk_overlap, retry, split_texts_res,
    idx,                \* the for loop's place in texts
    attempts,           \* how many times the body of split_texts was entered
    caught,             \* the exceptions its except clause has caught
    \* process_llm_token
    planner_input, prompt_tokens, remaining_tokens,
    calls               \* the compression strategies invoked

envVars == <<op, args, w, fails>>
chunkerVars ==
    <<text, text_token, chunk_char_size, chunk_char_overlap, result,
      current_position, spans>>
splitVars ==
    <<texts, chunk_size, chunk_overlap, retry, split_texts_res, idx, attempts>>
processVars == <<prompt_tokens, remaining_tokens, calls>>
vars ==
    <<envVars, est_calls, pc, outcome, chunkerVars, splitVars, caught,
      planner_input, processVars>>

Running == [kind |-> "running", value |-> << >>, exc |-> "", cause |-> ""]
Return(v) == [kind |-> "return", value |-> v, exc |-> "", cause |-> ""]
Raise(e, c) == [kind |-> "raise", value |-> << >>, exc |-> e, cause |-> c]
\* The value of a function that returns None.
None == << >>

\* --------------------------------------------------------------------- Init

NoFrames ==
    /\ est_calls = 0
    /\ pc = "start"
    /\ outcome = Running
    /\ text_token = 0 /\ chunk_char_size = 0 /\ chunk_char_overlap = 0
    /\ result = << >> /\ current_position = 0 /\ spans = << >>
    /\ split_texts_res = << >> /\ idx = 1 /\ attempts = 0 /\ caught = << >>
    /\ prompt_tokens = 0 /\ remaining_tokens = 0 /\ calls = << >>

NoEstimator == w = [c \in Alphabet |-> 1] /\ fails = {}
NoBatch ==
    /\ texts = << >> /\ retry = TRUE
    /\ chunk_size = DefaultChunkSize /\ chunk_overlap = DefaultChunkOverlap
NoPlannerInput == planner_input = [k \in {"background", "input"} |-> << >>]

\* split_text_on_tokens(text, text_token, chunk_size, chunk_overlap)
InitSplitTextOnTokens ==
    /\ op = "split_text_on_tokens"
    /\ text \in Texts
    /\ \E tok \in TokenCounts, size \in SmallSizes, ov \in SmallSizes :
          /\ args = [text_token |-> tok, chunk_size |-> size, chunk_overlap |-> ov]
          /\ chunk_size = size /\ chunk_overlap = ov
    /\ texts = << >> /\ retry = FALSE
    /\ NoEstimator /\ NoPlannerInput /\ NoFrames

\* split_texts(texts, agent_llm, chunk_size, chunk_overlap, retry)
InitSplitTexts ==
    /\ op = "split_texts"
    /\ texts \in Batches
    /\ \E p \in ChunkParams : chunk_size = p[1] /\ chunk_overlap = p[2]
    /\ retry \in BOOLEAN
    /\ args = [chunk_size |-> chunk_size, chunk_overlap |-> chunk_overlap,
               retry |-> retry]
    /\ w \in Estimators /\ fails \in SUBSET (1..MaxFailCall)
    /\ text = << >>
    /\ NoPlannerInput /\ NoFrames

\* truncate_content(content, token_length, agent_llm)
InitTruncateContent ==
    /\ op = "truncate_content"
    /\ \E c \in Texts, n \in TokenLengths : args = [content |-> c, token_length |-> n]
    /\ w \in Estimators /\ fails \in SUBSET (1..MaxFailCall)
    /\ text = << >>
    /\ NoBatch /\ NoPlannerInput /\ NoFrames

\* process_llm_token(prompt_template, profile, planner_input); the caller
\* supplies both keys of planner_input.
InitProcessLLMToken ==
    /\ op = "process_llm_token"
    /\ \E b \in Texts, i \in Inputs :
          planner_input = [k \in {"background", "input"} |->
                              IF k = "background" THEN b ELSE i]
    /\ \E tv \in Templates, ty \in ProcessorTypes, cfg \in LLMConfigs :
          args = [input_variables |-> tv, type |-> ty, llm |-> cfg,
                  planner_input |-> planner_input]
    /\ w \in Estimators /\ fails \in SUBSET (1..MaxFailCall)
    /\ text = << >>
    /\ NoBatch /\ NoFrames

Init ==
    \/ InitSplitTextOnTokens
    \/ InitSplitTexts
    \/ InitTruncateContent
    \/ InitProcessLLMToken

\* ------------------------------------------------------------------ actions

\* Lines 49-54 of split_text_on_tokens: the character sizes, then the loop.
EnterChunker(t, tokens, size, overlap) ==
    /\ text' = t
    /\ text_token' = tokens
    /\ chunk_char_size' = CharCount(size, t, tokens)
    /\ chunk_char_overlap' = CharCount(overlap, t, tokens)
    /\ result' = << >>
    /\ current_position' = 0
    /\ spans' = << >>
    /\ pc' = "while"

\* The body of split_texts from its first line: the for loop over ts.
EnterSplitTexts(ts, size, overlap, r) ==
    /\ texts' = ts
    /\ chunk_size' = size
    /\ chunk_overlap' = overlap
    /\ retry' = r
    /\ split_texts_res' = << >>
    /\ idx' = 1
    /\ attempts' = attempts + 1
    /\ pc' = "for"

WriteEveryKey(input, v) == [k \in DOMAIN input |-> v]

\* planner_input['background'] = v
WriteBackground(input, v) == [input EXCEPT !["background"] = v]

\* What a summarization chain does: it answers, or the model call raises.
ChainOutcomes == {Return(s) : s \in Summaries} \cup {Raise("SummarizeError", "")}

\* planner_input['background'] = <the chain's answer>, the last statement of
\* process_llm_token.
AssignSummary(o) ==
    /\ pc' = "done"
    /\ IF o.kind = "return"
       THEN /\ planner_input' = WriteBackground(planner_input, o.value)
            /\ outcome' = Return(None)
       ELSE /\ outcome' = o
            /\ UNCHANGED planner_input

\* planner_input['background'] = truncate_content(...), whose [0] raises on
\* an empty chunk list.
AssignTruncated(chunks) ==
    /\ pc' = "done"
    /\ IF chunks = << >>
       THEN /\ outcome' = Raise("IndexError", "")
            /\ UNCHANGED planner_input
       ELSE /\ planner_input' = WriteBackground(planner_input, chunks[1])
            /\ outcome' = Return(None)

\* return split_texts_res, and what the caller does with it.
SplitTextsReturns(chunks) ==
    CASE op = "split_texts" ->
            /\ pc' = "done"
            /\ outcome' = Return(chunks)
            /\ UNCHANGED planner_input
      [] op = "truncate_content" ->
            /\ pc' = "done"
            /\ outcome' = IF chunks = << >> THEN Raise("IndexError", "")
                          ELSE Return(chunks[1])
            /\ UNCHANGED planner_input
      [] op = "process_llm_token" /\ calls = <<"truncate_content">> ->
            AssignTruncated(chunks)
      [] op = "process_llm_token" /\ calls = <<"summarize_by_map_reduce">> ->
            \E o \in ChainOutcomes : AssignSummary(o)

RetryFlagKept == TRUE

\* retry=False of the call in the except clause.
RetryFlag == FALSE

RetryChunkSizeKept(size) == size

\* The except clause passes no chunk_size: the retry runs with the default.
RetryChunkSize(size) == DefaultChunkSize

\* The except clause passes no chunk_overlap.
RetryChunkOverlap(overlap) == DefaultChunkOverlap

\* except Exception as e, with e raised in the try block.
Except(e) ==
    /\ caught' = Append(caught, e)
    /\ IF retry
       THEN /\ EnterSplitTexts(texts, RetryChunkSize(chunk_size),
                               RetryChunkOverlap(chunk_overlap), RetryFlag)
            /\ UNCHANGED outcome
       ELSE /\ outcome' = Raise("ValueError", e)
            /\ pc' = "done"
            /\ UNCHANGED splitVars
    /\ UNCHANGED <<chunkerVars, planner_input>>

\* split_text_on_tokens called directly.
CallSplitTextOnTokens ==
    /\ pc = "start" /\ op = "split_text_on_tokens"
    /\ IF args.text_token = 0
       THEN /\ outcome' = Raise("ZeroDivisionError", "")
            /\ pc' = "done"
            /\ UNCHANGED chunkerVars
       ELSE /\ EnterChunker(text, args.text_token, chunk_size, chunk_overlap)
            /\ UNCHANGED outcome
    /\ UNCHANGED <<envVars, est_calls, splitVars, caught, planner_input, processVars>>

\* One iteration of the while loop of split_text_on_tokens.
WhileBody ==
    /\ pc = "while"
    /\ WhileCond(current_position, chunk_char_overlap, text)
    /\ Len(result) < MaxChunks
    /\ result' = Append(result, Chunk(text, current_position, chunk_char_size))
    /\ spans' = Append(spans, ChunkSpan(text, current_position, chunk_char_size))
    /\ current_position' =
          NextPosition(current_position, chunk_char_size, chunk_char_overlap)
    /\ UNCHANGED <<text, text_token, chunk_char_size, chunk_char_overlap>>
    /\ UNCHANGED <<envVars, est_calls, pc, outcome, splitVars, caught,
                   planner_input, processVars>>

\* The while loop ends: return result, to the caller or into
\* split_texts_res.extend(...).
WhileExit ==
    /\ pc = "while"
    /\ ~WhileCond(current_position, chunk_char_overlap, text)
    /\ IF op = "split_text_on_tokens"
       THEN /\ outcome' = Return(result)
            /\ pc' = "done"
            /\ UNCHANGED splitVars
       ELSE /\ split_texts_res' = split_texts_res \o result
            /\ idx' = idx + 1
            /\ pc' = "for"
            /\ UNCHANGED <<outcome, texts, chunk_size, chunk_overlap, retry, attempts>>
    /\ UNCHANGED <<envVars, est_calls, chunkerVars, caught, planner_input,
                   processVars>>

\* split_texts called directly.
CallSplitTexts ==
    /\ pc = "start" /\ op = "split_texts"
    /\ EnterSplitTexts(texts, chunk_size, chunk_overlap, retry)
    /\ UNCHANGED <<envVars, est_calls, outcome, chunkerVars, caught,
                   planner_input, processVars>>

\* One iteration of the for loop of split_texts up to the call of
\* split_text_on_tokens: the estimate of the text, its division.
ForBody ==
    /\ pc = "for"
    /\ idx <= Len(texts)
    /\ est_calls' = est_calls + 1
    /\ LET t == texts[idx]
           tokens == get_num_tokens(w, t)
           e == IF est_calls' \in fails THEN "EstimatorError"
                ELSE IF tokens = 0 THEN "ZeroDivisionError"
                ELSE ""
       IN  IF e = ""
           THEN /\ EnterChunker(t, tokens, chunk_size, chunk_overlap)
                /\ UNCHANGED <<outcome, splitVars, caught, planner_input>>
           ELSE Except(e)
    /\ UNCHANGED <<envVars, processVars>>

\* The for loop of split_texts ends.
ForExit ==
    /\ pc = "for"
    /\ idx > Len(texts)
    /\ SplitTextsReturns(split_texts_res)
    /\ UNCHANGED <<envVars, est_calls, chunkerVars, splitVars, caught, processVars>>

\* truncate_content called directly.
CallTruncateContent ==
    /\ pc = "start" /\ op = "truncate_content"
    /\ EnterSplitTexts(<<args.content>>, args.token_length, DefaultChunkOverlap, TRUE)
    /\ UNCHANGED <<envVars, est_calls, outcome, chunkerVars, caught,
                   planner_input, processVars>>

\* not (prompt_tokens <= remaining_tokens)
OverBudget(tokens, remaining) == tokens > remaining

\* prompt_processor.get('type') or PromptProcessEnum.TRUNCATE.value
ProcessorType(type) == IF type = NoType THEN TRUNCATE ELSE type

DispatchAlwaysTruncate(type_enum) == "truncate_content"

\* The if / elif chain on process_prompt_type_enum: the strategy it calls.
Dispatch(type_enum) ==
    CASE type_enum = TRUNCATE -> "truncate_content"
      [] type_enum = STUFF -> "summarize_by_stuff"
      [] type_enum = MAP_REDUCE -> "summarize_by_map_reduce"

\* process_llm_token up to the strategy it dispatches to.
ProcessLLMToken ==
    /\ pc = "start" /\ op = "process_llm_token"
    /\ est_calls' = est_calls + 1
    /\ LET prompt == Format(args.input_variables, planner_input)
           tokens == get_num_tokens(w, prompt)
           remaining == args.llm.max_context_length - args.llm.max_tokens
           type_enum == from_value(ProcessorType(args.type))
           content == planner_input["background"]
       IN  IF est_calls' \in fails
           THEN /\ outcome' = Raise("EstimatorError", "")
                /\ pc' = "done"
                /\ UNCHANGED <<planner_input, processVars, splitVars>>
           ELSE /\ prompt_tokens' = tokens
                /\ remaining_tokens' = remaining
                /\ IF ~OverBudget(tokens, remaining)
                   THEN /\ outcome' = Return(None)
                        /\ pc' = "done"
                        /\ UNCHANGED <<planner_input, calls, splitVars>>
                   ELSE IF type_enum = "ValueError"
                   THEN /\ outcome' = Raise("ValueError", "")
                        /\ pc' = "done"
                        /\ UNCHANGED <<planner_input, calls, splitVars>>
                   ELSE /\ calls' = Append(calls, Dispatch(type_enum))
                        /\ CASE Dispatch(type_enum) = "truncate_content" ->
                                  /\ EnterSplitTexts(<<content>>, remaining,
                                                     DefaultChunkOverlap, TRUE)
                                  /\ UNCHANGED <<outcome, planner_input>>
                             [] Dispatch(type_enum) = "summarize_by_stuff" ->
                                  /\ \E o \in ChainOutcomes : AssignSummary(o)
                                  /\ UNCHANGED splitVars
                             [] Dispatch(type_enum) = "summarize_by_map_reduce" ->
                                  /\ EnterSplitTexts(<<content>>, DefaultChunkSize,
                                                     DefaultChunkOverlap, TRUE)
                                  /\ UNCHANGED <<outcome, planner_input>>
    /\ UNCHANGED <<envVars, chunkerVars, caught>>

Next ==
    \/ CallSplitTextOnTokens
    \/ CallSplitTexts
    \/ CallTruncateContent
    \/ ProcessLLMToken
    \/ ForBody
    \/ ForExit
    \/ WhileBody
    \/ WhileExit

Spec == Init /\ [][Next]_vars

\* ------------------------------------------- split_texts as a pure function

\* The while loop of split_text_on_tokens from position pos with the chunks
\* acc so far; "diverge" when it is still running after MaxChunks chunks.
RECURSIVE WhileLoop(_, _, _, _, _)
WhileLoop(t, pos, char_size, char_overlap, acc) ==
    IF ~WhileCond(pos, char_overlap, t) THEN Return(acc)
    ELSE IF Len(acc) >= MaxChunks THEN [Running EXCEPT !.kind = "diverge"]
    ELSE WhileLoop(t, NextPosition(pos, char_size, char_overlap), char_size,
                   char_overlap, Append(acc, Chunk(t, pos, char_size)))

\* The try block of split_texts with an estimator that never raises, from
\* text i on with the chunks acc so far.
RECURSIVE ForLoop(_, _, _, _, _, _)
ForLoop(ts, weights, size, overlap, i, acc) ==
    IF i > Len(ts) THEN Return(acc)
    ELSE LET t == ts[i]
             tokens == get_num_tokens(weights, t)
         IN  IF tokens = 0 THEN Raise("ZeroDivisionError", "")
             ELSE LET r == WhileLoop(t, 0, CharCount(size, t, tokens),
                                     CharCount(overlap, t, tokens), << >>)
                  IN  IF r.kind = "return"
                      THEN ForLoop(ts, weights, size, overlap, i + 1, acc \o r.value)
                      ELSE r

\* split_texts(ts, agent_llm, size, overlap, r) with an estimator that never
\* raises.
SplitTexts(ts, weights, size, overlap, r) ==
    LET first == ForLoop(ts, weights, size, overlap, 1, << >>)
        second == ForLoop(ts, weights, DefaultChunkSize, DefaultChunkOverlap, 1, << >>)
    IN  IF first.kind # "raise" THEN first
        ELSE IF ~r THEN Raise("ValueError", first.exc)
        ELSE IF second.kind # "raise" THEN second
        ELSE Raise("ValueError", second.exc)

\* ------------------------------------------------------------------- claims

\* Each chunk span starts at or before the end of the one before it, the
\* first at 0, and the last ends at n.
Covers(sp, n) ==
    /\ Len(sp) >= 1
    /\ sp[1][1] = 0
    /\ \A i \in 1..(Len(sp) - 1) : sp[i + 1][1] <= sp[i][2]
    /\ sp[Len(sp)][2] = n

\* C1 (chunk coverage): for every non-empty text, positive token estimate
\* and chunk_size > chunk_overlap > 0, split_text_on_tokens returns chunks
\* whose spans cover text from 0 to len(text) with no gap.
C1_ChunkCoverage ==
    ( /\ op = "split_text_on_tokens" /\ pc = "done"
      /\ text # << >>
      /\ args.text_token > 0
      /\ args.chunk_size > args.chunk_overlap /\ args.chunk_overlap > 0 )
    => (outcome.kind = "return" /\ Covers(spans, Len(text)))

\* C2 (truncate shrinks): process_llm_token with policy TRUNCATE on an
\* over-budget prompt finishes with planner_input['background'] set to a
\* string of at most remaining tokens, as the target model counts them.
\* Stated for the plainest case: a positive budget, an estimator that never
\* raises, a background that alone exceeds the budget.
C2_TruncateShrinks ==
    ( /\ op = "process_llm_token" /\ pc = "done"
      /\ args.type \in {NoType, TRUNCATE}
      /\ fails = {}
      /\ remaining_tokens > 0
      /\ prompt_tokens > remaining_tokens
      /\ get_num_tokens(w, args.planner_input["background"]) > remaining_tokens )
    => ( /\ outcome.kind = "return"
         /\ get_num_tokens(w, planner_input["background"]) <= remaining_tokens )

\* The estimator raises on its first call and on no later one.
FailsFirstCallOnly == fails = {1} /\ texts # << >>

\* C3 (splitter retry), as claimed: after a first-call failure of the
\* estimator, split_texts with retry=True ends as the same call (same
\* chunk_size and chunk_overlap) ends with an estimator that never fails.
C3_RetrySameAsUnfailedCall ==
    (op = "split_texts" /\ pc = "done" /\ FailsFirstCallOnly /\ args.retry)
    => outcome = SplitTexts(texts, w, args.chunk_size, args.chunk_overlap, TRUE)

\* C3 (splitter retry), amended: after a first-call failure of the
\* estimator, split_texts with retry=True ends as split_texts(texts) with the
\* default chunk_size=800 and chunk_overlap=100 ends with an estimator that
\* never fails; with retry=False a first-call failure makes it raise.
C3_RetrySameAsDefaultCall ==
    /\ (op = "split_texts" /\ pc = "done" /\ FailsFirstCallOnly /\ args.retry)
       => outcome = SplitTexts(texts, w, 800, 100, TRUE)
    /\ (op = "split_texts" /\ pc = "done" /\ 1 \in fails /\ texts # << >>
          /\ ~args.retry)
       => outcome = Raise("ValueError", "EstimatorError")

\* C3 witness: a retried call that returns chunks other than those the
\* unfailed call with its own chunk parameters returns.
C3_Witness ==
    /\ op = "split_texts" /\ pc = "done" /\ FailsFirstCallOnly /\ args.retry
    /\ Len(caught) = 1
    /\ outcome.kind = "return" /\ Len(outcome.value) >= 2
    /\ SplitTexts(texts, w, args.chunk_size, args.chunk_overlap, TRUE).kind = "return"
    /\ outcome # SplitTexts(texts, w, args.chunk_size, args.chunk_overlap, TRUE)

\* C4 (policy dispatch): on an over-budget prompt process_llm_token invokes
\* exactly the strategy its prompt_processor.type names, truncate_content
\* when the type is absent, and no other.
C4_PolicyDispatch ==
    ( /\ op = "process_llm_token" /\ pc # "start"
      /\ prompt_tokens > remaining_tokens
      /\ args.type \in {NoType, TRUNCATE, STUFF, MAP_REDUCE} )
    => calls = << CASE args.type = TRUNCATE -> "truncate_content"
                    [] args.type = STUFF -> "summarize_by_stuff"
                    [] args.type = MAP_REDUCE -> "summarize_by_map_reduce"
                    [] args.type = NoType -> "truncate_content" >>

\* C4 witness: an over-budget call with type 'map_reduce' that finished
\* having invoked summarize_by_map_reduce alone.
C4_Witness ==
    /\ op = "process_llm_token" /\ pc = "done"
    /\ prompt_tokens > remaining_tokens
    /\ args.type = MAP_REDUCE
    /\ calls = <<"summarize_by_map_reduce">>
    /\ outcome.kind = "return"

\* C5 (frame of budget enforcement): process_llm_token changes nothing of
\* planner_input but the value of 'background', and that only when
\* prompt_tokens > remaining.
C5_Frame ==
    op = "process_llm_token"
    => ( /\ DOMAIN planner_input = DOMAIN args.planner_input
         /\ \A k \in DOMAIN planner_input :
               k # "background" => planner_input[k] = args.planner_input[k]
         /\ planner_input # args.planner_input => prompt_tokens > remaining_tokens
         /\ (pc = "done" /\ outcome.kind = "return"
                /\ prompt_tokens <= remaining_tokens)
            => planner_input = args.planner_input )

\* C5 witness: a finished call that rewrote 'background' and left 'input'
\* as it was.
C5_Witness ==
    /\ op = "process_llm_token" /\ pc = "done"
    /\ planner_input["background"] # args.planner_input["background"]
    /\ planner_input["input"] = args.planner_input["input"]
    /\ planner_input["input"] # planner_input["background"]

\* C6 (chunker guard): split_text_on_tokens never loops with a cursor that
\* does not advance: every iteration of its loop moves the cursor forward.
C6_CursorAdvances ==
    [][(pc = "while" /\ pc' = "while") => current_position' > current_position]_vars

\* C7 (overlap invariant): with chunk_size > chunk_overlap > 0, consecutive
\* chunks overlap in the text by chunk_char_overlap characters: the last
\* chunk_char_overlap characters of one are the first of the next.
C7_OverlapInvariant ==
    (pc # "start" /\ text_token > 0 /\ chunk_size > chunk_overlap /\ chunk_overlap > 0)
    => \A i \in 1..(Len(result) - 1) :
          LET c == result[i]
              d == result[i + 1]
              k == chunk_char_overlap
          IN  /\ Len(c) >= k /\ Len(d) >= k
              /\ SubSeq(c, Len(c) - k + 1, Len(c)) = SubSeq(d, 1, k)
              /\ spans[i + 1][1] = spans[i][2] - k

\* C7 witness: chunks overlapping by at least one character, the last one
\* the clipped final chunk.
C7_Witness ==
    /\ op = "split_text_on_tokens" /\ pc = "done"
    /\ args.chunk_size > args.chunk_overlap /\ args.chunk_overlap > 0
    /\ Len(result) >= 2
    /\ chunk_char_overlap >= 1
    /\ Len(result[Len(result)]) < chunk_char_size
    /\ \E i \in 1..Len(text) : text[i] # text[1]

\* C8 (bounded retry): split_texts makes at most two attempts, the second
\* with retry=False, chunk_size=800 and chunk_overlap=100; an error in both
\* ends the call with the wrapped 'split text failed' error carrying the
\* cause.
C8_BoundedRetry ==
    /\ attempts <= 2
    /\ Len(caught) <= attempts
    /\ attempts = 2 => (~retry /\ chunk_size = 800 /\ chunk_overlap = 100)
    /\ Len(caught) = 2
       => (pc = "done" /\ outcome = Raise("ValueError", caught[2]))

\* C8 witness: a call whose first attempt failed in the estimator and whose
\* retry failed in the division, ended by the wrapped error.
C8_Witness ==
    /\ op = "split_texts" /\ pc = "done"
    /\ attempts = 2 /\ Len(caught) = 2
    /\ caught[1] = "EstimatorError" /\ caught[2] = "ZeroDivisionError"
    /\ outcome.exc = "ValueError"

\* C9 (configuration errors surface): process_llm_token with a
\* prompt_processor.type that is none of 'truncate', 'stuff', 'map_reduce'
\* ends with an error, over budget or not.
C9_MalformedTypeSurfaces ==
    ( /\ op = "process_llm_token" /\ pc = "done"
      /\ args.type \notin {NoType, TRUNCATE, STUFF, MAP_REDUCE} )
    => outcome.kind = "raise"

IsPrefix(p, t) == Len(p) <= Len(t) /\ SubSeq(t, 1, Len(p)) = p

\* C10 (truncation keeps the head): for non-empty content, token_length >= 1
\* and an estimator that answers, truncate_content returns a non-empty
\* prefix of content of at most floor(token_length * len(content) / tokens)
\* characters.
C10_TruncationKeepsHead ==
    ( /\ op = "truncate_content" /\ pc = "done"
      /\ args.content # << >> /\ args.token_length >= 1
      /\ fails = {} /\ get_num_tokens(w, args.content) > 0 )
    => ( /\ outcome.kind = "return"
         /\ outcome.value # << >>
         /\ IsPrefix(outcome.value, args.content)
         /\ Len(outcome.value) <=
               (args.token_length * Len(args.content))
                  \div get_num_tokens(w, args.content) )

====
